---- MODULE Spec2Model ----
(***************************************************************************)
(* trsync: the reconciliation engine between a local workspace and the     *)
(* hub.  The model follows src/src/operation.rs (OperationalHandler) and   *)
(* src/src/local.rs (LocalWatcher, LocalSync).  The index (database.rs),   *)
(* the hub client (client.rs) and the file helpers (util.rs) are not among *)
(* the source files; they are modelled from sections 4.1 and 6 of the      *)
(* specification.                                                          *)
(***************************************************************************)
EXTENDS Integers, Sequences, FiniteSets, TLC

VARIABLES
    queue,            \* the operational channel: messages sent, not yet received
    ignore_messages,  \* OperationalHandler.ignore_messages (a Vec)
    index,            \* the rows of the local index
    disk,             \* the workspace: path -> [type, mtime]
    hub,              \* the hub's contents: content id -> RemoteContent
    now,              \* the clock the disk takes modification times from
    running,          \* FALSE once listen has returned
    events,           \* number of user, remote and watcher events so far
    synced,           \* TRUE once the startup reconciler has run
    hist,             \* the last listen iterations, most recent first
    frames,           \* the calls of new_remote_file in progress, innermost last
    inotify,          \* the notifier's channel: events the watcher has not taken
    connected         \* FALSE once every sender of the queue has been dropped

vars == <<queue, ignore_messages, index, disk, hub, now, running, events, synced, hist,
          frames, inotify, connected>>

(***************************************************************************)
(* Bounds of the model.                                                    *)
(***************************************************************************)
MaxEvents == 2
MaxRemoteEvents == 4
MaxNestedEvents == 4
MaxRenameEvents == 4
MaxCycleEvents == 2
MaxFrames == 3
MaxWatchEvents == 2
MaxDropEvents == 3
MaxId == 3
MaxCalls == 6
HistLen == 3

(***************************************************************************)
(* Paths.  A file name is a sequence of characters, a relative path a      *)
(* non-empty sequence of file names.                                       *)
(***************************************************************************)
NameA == <<"a">>
NameB == <<"b">>
NameDot == <<".", "a">>
NameTilde == <<"a", "~">>
NameHash == <<"#", "a">>
NameFoo == <<"f", "o", "o">>
NameBar == <<"b", "a", "r">>
NameBaz == <<"b", "a", "z", ".", "t", "x", "t">>

\* util::string_path_file_name: the last component of a path
string_path_file_name(p) == p[Len(p)]

\* Path::parent: the path without its last component; <<>> is the workspace root
parent_path(p) == SubSeq(p, 1, Len(p) - 1)

\* str::starts_with and str::ends_with for a one-character pattern
starts_with(name, c) == Len(name) > 0 /\ name[1] = c
ends_with(name, c) == Len(name) > 0 /\ name[Len(name)] = c

IsPrefix(p, q) == Len(p) <= Len(q) /\ SubSeq(q, 1, Len(p)) = p

\* q with its prefix p replaced by r
Rebase(q, p, r) == r \o SubSeq(q, Len(p) + 1, Len(q))

(***************************************************************************)
(* OperationalMessage (operation.rs, 19-32).                               *)
(***************************************************************************)
NoPath == <<>>

NewLocalFile(p) == [kind |-> "NewLocalFile", path |-> p, after |-> NoPath, id |-> 0]
ModifiedLocalFile(p) == [kind |-> "ModifiedLocalFile", path |-> p, after |-> NoPath, id |-> 0]
DeletedLocalFile(p) == [kind |-> "DeletedLocalFile", path |-> p, after |-> NoPath, id |-> 0]
RenamedLocalFile(p, q) == [kind |-> "RenamedLocalFile", path |-> p, after |-> q, id |-> 0]
NewRemoteFile(i) == [kind |-> "NewRemoteFile", path |-> NoPath, after |-> NoPath, id |-> i]
ModifiedRemoteFile(i) == [kind |-> "ModifiedRemoteFile", path |-> NoPath, after |-> NoPath, id |-> i]
DeletedRemoteFile(i) == [kind |-> "DeletedRemoteFile", path |-> NoPath, after |-> NoPath, id |-> i]
Exit == [kind |-> "Exit", path |-> NoPath, after |-> NoPath, id |-> 0]

(***************************************************************************)
(* The state a handler works on, threaded through its statements:          *)
(*   ix, ig, hub, disk, now  the index, ignore list, hub, disk and clock   *)
(*   calls   the hub calls and disk writes made so far, in order           *)
(*   n       their number;  failAt  the one that fails (0: none)           *)
(*   err     "" or the error the `?` operator returns with                 *)
(*   r       the value the last call returned                              *)
(***************************************************************************)
Ok(st) == st.err = ""
Fail(st, e) == [st EXCEPT !.err = e]
Call(st, c) == [st EXCEPT !.n = @ + 1, !.calls = Append(@, c)]
Broken(st) == st.n = st.failAt
Push(st, m) == [st EXCEPT !.ig = Append(@, m)]

(***************************************************************************)
(* The local index (specification 4.1).  relative_path and content_id are  *)
(* each a unique key of the table.                                         *)
(***************************************************************************)
relative_path_is_known(ix, p) == \E e \in ix : e.path = p
content_id_is_known(ix, id) == \E e \in ix : e.id = id
get_content_id_from_path(ix, p) == (CHOOSE e \in ix : e.path = p).id
get_path_from_content_id(ix, id) == (CHOOSE e \in ix : e.id = id).path

insert_new_file_no_unique(st, p, mtime, id, rev) ==
    [st EXCEPT !.ix = @ \cup {[path |-> p, id |-> id, rev |-> rev, mtime |-> mtime]}]

insert_new_file(st, p, mtime, id, rev) ==
    IF relative_path_is_known(st.ix, p) \/ content_id_is_known(st.ix, id)
    THEN Fail(st, "UnexpectedError")
    ELSE [st EXCEPT !.ix = @ \cup {[path |-> p, id |-> id, rev |-> rev, mtime |-> mtime]}]

update_relative_path(st, id, p) ==
    IF \E e \in st.ix : e.path = p /\ e.id # id
    THEN Fail(st, "UnexpectedError")
    ELSE [st EXCEPT !.ix = {IF e.id = id THEN [e EXCEPT !.path = p] ELSE e : e \in @}]

update_revision_id(st, p, rev) ==
    [st EXCEPT !.ix = {IF e.path = p THEN [e EXCEPT !.rev = rev] ELSE e : e \in @}]

update_last_modified_timestamp(st, p, mtime) ==
    [st EXCEPT !.ix = {IF e.path = p THEN [e EXCEPT !.mtime = mtime] ELSE e : e \in @}]

delete_file(st, id) == [st EXCEPT !.ix = {e \in @ : e.id # id}]

(***************************************************************************)
(* The hub client (specification 6).  A content's parent is 0 when it sits *)
(* at the workspace root.  Every call is logged and may fail.              *)
(***************************************************************************)
IsLive(h, id) == id \in 1..Len(h) /\ h[id].live
ParentOk(h, parent) == parent = 0 \/ (IsLive(h, parent) /\ h[parent].type = "Folder")
Siblings(h, parent, name) ==
    {i \in 1..Len(h) : h[i].live /\ h[i].parent = parent /\ h[i].filename = name}

create_content(st, p, type, parent) ==
    LET s1 == Call(st, <<"create_content", p, type, parent>>)
        dup == Siblings(s1.hub, parent, string_path_file_name(p))
    IN  IF Broken(s1) \/ ~ParentOk(s1.hub, parent) THEN Fail(s1, "RequestError")
        ELSE IF dup # {}
        THEN LET i == CHOOSE i \in dup : TRUE
             IN  [s1 EXCEPT !.err = "AlreadyExistResponse",
                            !.calls = Append(@, <<"AlreadyExistResponse", i,
                                                  s1.hub[i].rev>>),
                            !.r = [id |-> i, rev |-> s1.hub[i].rev]]
        ELSE IF Len(s1.hub) >= MaxId THEN Fail(s1, "RequestError")
        ELSE [s1 EXCEPT !.hub = Append(@, [parent |-> parent,
                                           filename |-> string_path_file_name(p),
                                           type |-> type, rev |-> 1, live |-> TRUE]),
                        !.r = [id |-> Len(s1.hub) + 1, rev |-> 1]]

update_content(st, p, type, id) ==
    LET s1 == Call(st, <<"update_content", p, type, id>>)
    IN  IF Broken(s1) \/ ~IsLive(s1.hub, id) THEN Fail(s1, "RequestError")
        ELSE [s1 EXCEPT !.hub[id].rev = @ + 1,
                        !.hub[id].filename = string_path_file_name(p),
                        !.r = [rev |-> s1.hub[id].rev + 1]]

update_content_file_name(st, id, name, type) ==
    LET s1 == Call(st, <<"update_content_file_name", id, name, type>>)
    IN  IF Broken(s1) \/ ~IsLive(s1.hub, id)
           \/ Siblings(s1.hub, s1.hub[id].parent, name) \ {id} # {}
        THEN Fail(s1, "RequestError")
        ELSE [s1 EXCEPT !.hub[id].rev = @ + 1, !.hub[id].filename = name]

move_content(st, id, parent) ==
    LET s1 == Call(st, <<"move_content", id, parent>>)
    IN  IF Broken(s1) \/ ~IsLive(s1.hub, id) \/ ~ParentOk(s1.hub, parent) \/ parent = id
        THEN Fail(s1, "RequestError")
        ELSE [s1 EXCEPT !.hub[id].rev = @ + 1, !.hub[id].parent = parent]

trash_content(st, id) ==
    LET s1 == Call(st, <<"trash_content", id>>)
    IN  IF Broken(s1) \/ ~IsLive(s1.hub, id) THEN Fail(s1, "RequestError")
        ELSE [s1 EXCEPT !.hub[id].live = FALSE, !.hub[id].rev = @ + 1]

get_remote_content(st, id) ==
    LET s1 == Call(st, <<"get_remote_content", id>>)
    IN  IF Broken(s1) THEN Fail(s1, "RequestError")
        ELSE IF ~IsLive(s1.hub, id) THEN Fail(s1, "NotFoundResponse")
        ELSE [s1 EXCEPT !.r = [content_id |-> id] @@ s1.hub[id]]

get_file_content_response(st, id, name) ==
    LET s1 == Call(st, <<"get_file_content_response", id, name>>)
    IN  IF Broken(s1) \/ ~IsLive(s1.hub, id) THEN Fail(s1, "RequestError") ELSE s1

\* the path of content id, composed from the file names of its parents
RECURSIVE RemotePath(_, _)
RemotePath(h, id) ==
    IF h[id].parent = 0 THEN <<h[id].filename>>
    ELSE Append(RemotePath(h, h[id].parent), h[id].filename)

RECURSIVE ChainOk(_, _, _)
ChainOk(h, id, fuel) ==
    /\ fuel > 0
    /\ id \in 1..Len(h)
    /\ (h[id].parent = 0 \/ ChainOk(h, h[id].parent, fuel - 1))

build_relative_path(st, content) ==
    LET s1 == Call(st, <<"build_relative_path", content.content_id>>)
    IN  IF Broken(s1) \/ ~ChainOk(s1.hub, content.content_id, Len(s1.hub))
        THEN Fail(s1, "RequestError")
        ELSE [s1 EXCEPT !.r = RemotePath(s1.hub, content.content_id)]

\* the file names met from content id upwards, for fuel contents at most
RECURSIVE PathAround(_, _, _)
PathAround(h, id, fuel) ==
    IF h[id].parent = 0 \/ fuel = 1 THEN <<h[id].filename>>
    ELSE Append(PathAround(h, h[id].parent, fuel - 1), h[id].filename)

\* build_relative_path on a hub whose parent chains may not reach the root:
\* what the client answers then is not specified, it returns an error or,
\* when returns holds, the names it met
build_relative_path_open(st, content, returns) ==
    LET s1 == Call(st, <<"build_relative_path", content.content_id>>)
    IN  IF Broken(s1) THEN Fail(s1, "RequestError")
        ELSE IF ChainOk(s1.hub, content.content_id, Len(s1.hub))
        THEN [s1 EXCEPT !.r = RemotePath(s1.hub, content.content_id)]
        ELSE IF returns
        THEN [s1 EXCEPT !.r = PathAround(s1.hub, content.content_id, Len(s1.hub))]
        ELSE Fail(s1, "RequestError")

(***************************************************************************)
(* The workspace on disk.  Creating, removing or renaming an entry changes *)
(* the modification time of the directory that holds it.                   *)
(***************************************************************************)
OnDisk(d, p) == p \in DOMAIN d
IsDir(d, p) == p \in DOMAIN d /\ d[p].type = "Folder"
ParentOnDisk(d, p) == Len(p) = 1 \/ IsDir(d, parent_path(p))
Children(d, p) == {q \in DOMAIN d : IsPrefix(p, q) /\ q # p}

TouchParent(d, p, t) ==
    IF Len(p) > 1 /\ parent_path(p) \in DOMAIN d
    THEN [d EXCEPT ![parent_path(p)].mtime = t] ELSE d

DiskPut(d, p, v) == [x \in DOMAIN d \cup {p} |-> IF x = p THEN v ELSE d[x]]

DiskCreate(d, p, type, t) == TouchParent(DiskPut(d, p, [type |-> type, mtime |-> t]), p, t)

DiskRemove(d, p, t) ==
    TouchParent([x \in {q \in DOMAIN d : ~IsPrefix(p, q)} |-> d[x]], p, t)

DiskMove(d, old, new, t) ==
    LET moved == {q \in DOMAIN d : IsPrefix(old, q)}
        kept == {q \in DOMAIN d : ~IsPrefix(old, q) /\ ~IsPrefix(new, q)}
        d2 == [x \in kept \cup {Rebase(q, old, new) : q \in moved} |->
                  IF IsPrefix(new, x) THEN d[Rebase(x, new, old)] ELSE d[x]]
    IN  TouchParent(TouchParent(d2, old, t), new, t)

\* rename(2): onto nothing, a file onto a file, a directory onto an empty directory
CanRename(d, old, new) ==
    /\ OnDisk(d, old)
    /\ ParentOnDisk(d, new)
    /\ ~IsPrefix(old, parent_path(new))
    /\ (OnDisk(d, new) /\ new # old) =>
          /\ d[new].type = d[old].type
          /\ Children(d, new) = {}

\* util::FileInfos::from: reads the metadata of the disk object at p
FileInfos_from(st, p) ==
    IF ~OnDisk(st.disk, p) THEN Fail(st, "UnexpectedError")
    ELSE [st EXCEPT !.r = [relative_path |-> p,
                           file_name |-> string_path_file_name(p),
                           content_type |-> st.disk[p].type,
                           is_directory |-> st.disk[p].type = "Folder",
                           last_modified_timestamp |-> st.disk[p].mtime]]

\* fs::create_dir_all: the caller logs a failure and goes on
RECURSIVE MkdirAll(_, _, _)
MkdirAll(d, p, t) ==
    IF p = <<>> \/ OnDisk(d, p) THEN d
    ELSE DiskCreate(MkdirAll(d, parent_path(p), t), p, "Folder", t)

create_dir_all(st, p) ==
    LET s1 == Call(st, <<"create_dir_all", p>>)
        blocked == \E k \in 1..Len(p) :
                       OnDisk(s1.disk, SubSeq(p, 1, k)) /\ ~IsDir(s1.disk, SubSeq(p, 1, k))
    IN  IF Broken(s1) \/ blocked \/ OnDisk(s1.disk, p) THEN s1
        ELSE [s1 EXCEPT !.disk = MkdirAll(@, p, s1.now + 1), !.now = @ + 1]

\* File::create followed by io::copy
File_create(st, p) ==
    LET s1 == Call(st, <<"File::create", p>>)
    IN  IF Broken(s1) \/ ~ParentOnDisk(s1.disk, p) \/ IsDir(s1.disk, p)
        THEN Fail(s1, "UnexpectedError")
        ELSE [s1 EXCEPT !.disk = IF OnDisk(@, p)
                                 THEN [@ EXCEPT ![p].mtime = s1.now + 1]
                                 ELSE DiskCreate(@, p, "File", s1.now + 1),
                        !.now = @ + 1]

fs_rename(st, old, new) ==
    LET s1 == Call(st, <<"fs::rename", old, new>>)
    IN  IF Broken(s1) \/ ~CanRename(s1.disk, old, new) THEN Fail(s1, "UnexpectedError")
        ELSE IF old = new THEN s1
        ELSE [s1 EXCEPT !.disk = DiskMove(@, old, new, s1.now + 1), !.now = @ + 1]

fs_remove(st, p) ==
    LET s1 == Call(st, <<"fs::remove", p>>)
    IN  IF Broken(s1) \/ ~OnDisk(s1.disk, p) THEN Fail(s1, "UnexpectedError")
        ELSE [s1 EXCEPT !.disk = DiskRemove(@, p, s1.now + 1), !.now = @ + 1]

(***************************************************************************)
(* The handlers of OperationalHandler (operation.rs, 131-500).  Each takes *)
(* the handler state and returns it as the method leaves it; err is the    *)
(* Err the method returns.  Then(st, K) is Rust's `?`: K goes on from st   *)
(* unless st holds an error.                                               *)
(***************************************************************************)
Then(st, K(_)) == IF Ok(st) THEN K(st) ELSE st

\* modified_local_file without the ignore push (lines 205-207)
modified_local_file_no_push(st, relative_path) ==
    Then(FileInfos_from(st, relative_path), LAMBDA s1 :
    IF ~relative_path_is_known(s1.ix, relative_path)
    THEN Fail(s1, "UnIndexedRelativePath")
    ELSE
    LET file_infos == s1.r
        content_id == get_content_id_from_path(s1.ix, relative_path)
    IN  Then(update_content(s1, relative_path, file_infos.content_type, content_id),
             LAMBDA s2 :
        update_revision_id(
            update_last_modified_timestamp(s2, relative_path,
                                           file_infos.last_modified_timestamp),
            relative_path, s2.r.rev)))

modified_local_file(st, relative_path) ==
    Then(FileInfos_from(st, relative_path), LAMBDA s1 :
    IF ~relative_path_is_known(s1.ix, relative_path)
    THEN Fail(s1, "UnIndexedRelativePath")
    ELSE
    LET file_infos == s1.r
        content_id == get_content_id_from_path(s1.ix, relative_path)
    IN  Then(update_content(Push(s1, ModifiedRemoteFile(content_id)), relative_path,
                            file_infos.content_type, content_id), LAMBDA s2 :
        update_revision_id(
            update_last_modified_timestamp(s2, relative_path,
                                           file_infos.last_modified_timestamp),
            relative_path, s2.r.rev)))

\* lines 164-174 without the ModifiedRemoteFile registration
push_created_once(st, content_type, content_id) ==
    Push(st, NewRemoteFile(content_id))

\* lines 164-174: the ignore list after a successful create
push_created(st, content_type, content_id) ==
    IF content_type = "File"
    THEN Push(Push(st, NewRemoteFile(content_id)), ModifiedRemoteFile(content_id))
    ELSE Push(st, NewRemoteFile(content_id))

\* lines 159-192 without the index insert after a successful create
after_create_no_insert(s1, file_infos) ==
    IF Ok(s1)
    THEN push_created(s1, file_infos.content_type, s1.r.id)
    ELSE IF s1.err = "AlreadyExistResponse"
    THEN insert_new_file([s1 EXCEPT !.err = ""], file_infos.relative_path,
                         file_infos.last_modified_timestamp, s1.r.id, s1.r.rev)
    ELSE Fail(s1, "FailToCreateContentOnRemote")

\* lines 159-192 with the answer AlreadyExists taken as a failure
after_create_reject_existing(s1, file_infos) ==
    IF Ok(s1)
    THEN insert_new_file(push_created(s1, file_infos.content_type, s1.r.id),
                         file_infos.relative_path,
                         file_infos.last_modified_timestamp, s1.r.id, s1.r.rev)
    ELSE Fail(s1, "FailToCreateContentOnRemote")

\* lines 159-192: the hub create, the ignore pushes and the index insert
after_create(s1, file_infos) ==
    IF Ok(s1)
    THEN insert_new_file(push_created(s1, file_infos.content_type, s1.r.id),
                         file_infos.relative_path,
                         file_infos.last_modified_timestamp, s1.r.id, s1.r.rev)
    ELSE IF s1.err = "AlreadyExistResponse"
    THEN insert_new_file([s1 EXCEPT !.err = ""], file_infos.relative_path,
                         file_infos.last_modified_timestamp, s1.r.id, s1.r.rev)
    ELSE Fail(s1, "FailToCreateContentOnRemote")

\* the create without the parent's content id
create_and_insert_at_root(st, file_infos, parent_id) ==
    after_create(create_content(st, file_infos.relative_path, file_infos.content_type, 0),
                 file_infos)

create_and_insert(st, file_infos, parent_id) ==
    after_create(create_content(st, file_infos.relative_path, file_infos.content_type,
                                parent_id),
                 file_infos)

\* new_local_file without lines 133-135: a path that is indexed already is
\* created on the hub as any other; its parent is taken from the index
new_local_file_always_creates(st, relative_path) ==
    Then(FileInfos_from(st, relative_path), LAMBDA s1 :
    IF Len(relative_path) = 1 THEN create_and_insert(s1, s1.r, 0)
    ELSE IF ~relative_path_is_known(s1.ix, parent_path(relative_path))
    THEN Fail(s1, "UnIndexedRelativePath")
    ELSE create_and_insert(s1, s1.r,
             get_content_id_from_path(s1.ix, parent_path(relative_path))))

RECURSIVE new_local_file(_, _)
new_local_file(st, relative_path) ==
    IF relative_path_is_known(st.ix, relative_path)
    THEN modified_local_file(st, relative_path)
    ELSE
    Then(FileInfos_from(st, relative_path), LAMBDA s1 :
    IF Len(relative_path) = 1 THEN create_and_insert(s1, s1.r, 0)
    ELSE
    \* file_infos.parent_id: a parent that is not indexed is handled first
    Then(IF relative_path_is_known(s1.ix, parent_path(relative_path))
         THEN s1 ELSE new_local_file(s1, parent_path(relative_path)), LAMBDA s2 :
    IF ~relative_path_is_known(s2.ix, parent_path(relative_path))
    THEN Fail(s2, "UnIndexedRelativePath")
    ELSE create_and_insert(s2, s1.r,
             get_content_id_from_path(s2.ix, parent_path(relative_path)))))

\* deleted_local_file with the index updated before the hub call
deleted_local_file_index_first(st, relative_path) ==
    IF ~relative_path_is_known(st.ix, relative_path)
    THEN Fail(st, "UnIndexedRelativePath")
    ELSE
    LET content_id == get_content_id_from_path(st.ix, relative_path)
    IN  Then(trash_content(delete_file(st, content_id), content_id), LAMBDA s1 :
        Push(s1, DeletedRemoteFile(content_id)))

deleted_local_file(st, relative_path) ==
    IF ~relative_path_is_known(st.ix, relative_path)
    THEN Fail(st, "UnIndexedRelativePath")
    ELSE
    LET content_id == get_content_id_from_path(st.ix, relative_path)
    IN  Then(trash_content(st, content_id), LAMBDA s1 :
        delete_file(Push(s1, DeletedRemoteFile(content_id)), content_id))

\* lines 266-302 without the move to the root (297-301)
move_to_new_parent_no_root(st, content_id, after_relative_path) ==
    LET after_parent == parent_path(after_relative_path)
    IN  IF after_parent = <<>> THEN st
        ELSE IF relative_path_is_known(st.ix, after_parent)
        THEN move_content(st, content_id, get_content_id_from_path(st.ix, after_parent))
        ELSE
        Then(new_local_file(st, after_parent), LAMBDA s1 :
        IF ~relative_path_is_known(s1.ix, after_parent)
        THEN Fail(s1, "UnIndexedRelativePath")
        ELSE move_content(s1, content_id, get_content_id_from_path(s1.ix, after_parent)))

\* lines 266-302 with an unindexed parent left aside: the move goes to the root
move_to_new_parent_unindexed_root(st, content_id, after_relative_path) ==
    LET after_parent == parent_path(after_relative_path)
    IN  IF after_parent = <<>> \/ ~relative_path_is_known(st.ix, after_parent)
        THEN move_content(st, content_id, 0)
        ELSE move_content(st, content_id, get_content_id_from_path(st.ix, after_parent))

\* lines 266-302: the hub move when the parent directory changes
move_to_new_parent(st, content_id, after_relative_path) ==
    LET after_parent == parent_path(after_relative_path)
    IN  IF after_parent = <<>> THEN move_content(st, content_id, 0)
        ELSE IF relative_path_is_known(st.ix, after_parent)
        THEN move_content(st, content_id, get_content_id_from_path(st.ix, after_parent))
        ELSE
        Then(new_local_file(st, after_parent), LAMBDA s1 :
        IF ~relative_path_is_known(s1.ix, after_parent)
        THEN Fail(s1, "UnIndexedRelativePath")
        ELSE move_content(s1, content_id, get_content_id_from_path(s1.ix, after_parent)))

\* lines 304-328: the hub rename and the index update
rename_and_index(st, content_id, content_type, before_relative_path, after_relative_path) ==
    Then(IF string_path_file_name(before_relative_path)
            # string_path_file_name(after_relative_path)
         THEN update_content_file_name(st, content_id,
                  string_path_file_name(after_relative_path), content_type)
         ELSE st, LAMBDA s1 :
    Then(update_relative_path(s1, content_id, after_relative_path), LAMBDA s2 :
    Then(get_remote_content(s2, content_id), LAMBDA s3 :
    update_revision_id(s3, after_relative_path, s3.r.rev))))

\* renamed_local_file with the hub rename issued before the hub move
renamed_local_file_rename_first(st, before_relative_path, after_relative_path) ==
    IF ~relative_path_is_known(st.ix, before_relative_path)
    THEN Fail(st, "UnIndexedRelativePath")
    ELSE
    LET content_id == get_content_id_from_path(st.ix, before_relative_path)
    IN  Then(FileInfos_from(st, after_relative_path), LAMBDA s1 :
        Then(IF string_path_file_name(before_relative_path)
                # string_path_file_name(after_relative_path)
             THEN update_content_file_name(Push(s1, ModifiedRemoteFile(content_id)),
                      content_id, string_path_file_name(after_relative_path),
                      s1.r.content_type)
             ELSE Push(s1, ModifiedRemoteFile(content_id)), LAMBDA s2 :
        Then(IF parent_path(before_relative_path) # parent_path(after_relative_path)
             THEN move_to_new_parent(s2, content_id, after_relative_path)
             ELSE s2, LAMBDA s3 :
        Then(update_relative_path(s3, content_id, after_relative_path), LAMBDA s4 :
        Then(get_remote_content(s4, content_id), LAMBDA s5 :
        update_revision_id(s5, after_relative_path, s5.r.rev))))))

renamed_local_file(st, before_relative_path, after_relative_path) ==
    IF ~relative_path_is_known(st.ix, before_relative_path)
    THEN Fail(st, "UnIndexedRelativePath")
    ELSE
    LET content_id == get_content_id_from_path(st.ix, before_relative_path)
    IN  Then(FileInfos_from(st, after_relative_path), LAMBDA s1 :
        Then(IF parent_path(before_relative_path) # parent_path(after_relative_path)
             THEN move_to_new_parent(Push(s1, ModifiedRemoteFile(content_id)),
                                     content_id, after_relative_path)
             ELSE Push(s1, ModifiedRemoteFile(content_id)), LAMBDA s2 :
        rename_and_index(s2, content_id, s1.r.content_type,
                         before_relative_path, after_relative_path)))

\* lines 351-373: write the folder or the file on disk
write_on_disk(st, remote_content, relative_path) ==
    IF remote_content.type = "Folder" THEN create_dir_all(st, relative_path)
    ELSE Then(get_file_content_response(st, remote_content.content_id,
                                        remote_content.filename), LAMBDA s1 :
         File_create(s1, relative_path))

\* lines 375-383: the index insert
insert_remote(st, content_id, relative_path) ==
    Then(FileInfos_from(st, relative_path), LAMBDA s1 :
    Then(get_remote_content(s1, content_id), LAMBDA s2 :
    insert_new_file(s2, relative_path, s1.r.last_modified_timestamp,
                    content_id, s2.r.rev)))

RECURSIVE new_remote_file(_, _)
new_remote_file(st, content_id) ==
    Then(get_remote_content(st, content_id), LAMBDA s1 :
    Then(build_relative_path(s1, s1.r), LAMBDA s2 :
    Then(IF s1.r.parent # 0 /\ ~content_id_is_known(s2.ix, s1.r.parent)
         THEN new_remote_file(Push(s2, NewLocalFile(s2.r)), s1.r.parent)
         ELSE Push(s2, NewLocalFile(s2.r)), LAMBDA s3 :
    Then(write_on_disk(s3, s1.r, s2.r), LAMBDA s4 :
    insert_remote(s4, content_id, s2.r)))))

\* lines 397-422: a folder is renamed on disk inside its existing parent
modified_remote_folder(st, content_id, remote_content) ==
    IF ~content_id_is_known(st.ix, content_id) THEN Fail(st, "UnexpectedError")
    ELSE
    LET old_relative_path == get_path_from_content_id(st.ix, content_id)
        new_relative_path == Append(parent_path(old_relative_path), remote_content.filename)
    IN  Then(fs_rename(st, old_relative_path, new_relative_path), LAMBDA s1 :
        Push(s1, ModifiedLocalFile(new_relative_path)))

\* lines 424-443: the file was renamed on the hub
rename_disk_file(st, content_id, file_infos, remote_content, relative_path) ==
    IF remote_content.filename = file_infos.file_name THEN st
    ELSE Then(fs_rename(st, file_infos.relative_path, relative_path), LAMBDA s1 :
         update_relative_path(s1, content_id, relative_path))

\* lines 445-471: download the file and update the index
download_and_index(st, content_id, remote_content, relative_path) ==
    Then(get_file_content_response(Push(st, ModifiedLocalFile(relative_path)),
                                   content_id, remote_content.filename), LAMBDA s1 :
    Then(File_create(s1, relative_path), LAMBDA s2 :
    Then(FileInfos_from(s2, relative_path), LAMBDA s3 :
    update_revision_id(
        update_last_modified_timestamp(s3, relative_path, s3.r.last_modified_timestamp),
        relative_path, remote_content.rev))))

modified_remote_file(st, content_id) ==
    Then(get_remote_content(st, content_id), LAMBDA s1 :
    Then(build_relative_path(s1, s1.r), LAMBDA s2 :
    IF s1.r.type = "Folder" THEN modified_remote_folder(s2, content_id, s1.r)
    ELSE IF ~content_id_is_known(s2.ix, content_id) THEN Fail(s2, "UnexpectedError")
    ELSE
    Then(FileInfos_from(s2, get_path_from_content_id(s2.ix, content_id)), LAMBDA s3 :
    Then(rename_disk_file(s3, content_id, s3.r, s1.r, s2.r), LAMBDA s4 :
    download_and_index(s4, content_id, s1.r, s2.r)))))

deleted_remote_file(st, content_id) ==
    IF ~content_id_is_known(st.ix, content_id) THEN Fail(st, "UnexpectedError")
    ELSE
    LET relative_path == get_path_from_content_id(st.ix, content_id)
    IN  Then(FileInfos_from(st, relative_path), LAMBDA s1 :
        Then(fs_remove(Push(s1, DeletedLocalFile(relative_path)), relative_path),
             LAMBDA s2 : delete_file(s2, content_id)))

(***************************************************************************)
(* OperationalHandler::ignore_message and ::listen (operation.rs, 54-129). *)
(***************************************************************************)
contains(list, m) == \E i \in 1..Len(list) : list[i] = m
retain(list, m) == SelectSeq(list, LAMBDA x : x # m)

is_filtered(message) ==
    /\ message.kind \in {"NewLocalFile", "ModifiedLocalFile", "DeletedLocalFile"}
    /\ \/ starts_with(string_path_file_name(message.path), ".")
       \/ ends_with(string_path_file_name(message.path), "~")

\* the verdict (skip or not) and the ignore list as the method leaves it
ignore_message(list, message) ==
    IF contains(list, message)
    THEN [skip |-> TRUE, why |-> "planned", ig |-> retain(list, message)]
    ELSE [skip |-> is_filtered(message), why |-> "filter", ig |-> list]

dispatch(st, message) ==
    CASE message.kind = "NewLocalFile" -> new_local_file(st, message.path)
      [] message.kind = "ModifiedLocalFile" -> modified_local_file(st, message.path)
      [] message.kind = "DeletedLocalFile" -> deleted_local_file(st, message.path)
      [] message.kind = "RenamedLocalFile" ->
             renamed_local_file(st, message.path, message.after)
      [] message.kind = "NewRemoteFile" -> new_remote_file(st, message.id)
      [] message.kind = "ModifiedRemoteFile" -> modified_remote_file(st, message.id)
      [] message.kind = "DeletedRemoteFile" -> deleted_remote_file(st, message.id)

HandlerState(list, failAt) ==
    [ix |-> index, ig |-> list, hub |-> hub, disk |-> disk, now |-> now,
     calls |-> <<>>, n |-> 0, failAt |-> failAt, err |-> "", r |-> <<>>]

\* one record of hist: the message received, what listen did with it
\* ("planned", "filter": skipped; "ok", "err": its handler's result; "exit"),
\* the ignore list, the index and the hub before it (nhub: the number of
\* hub contents), the calls its handler made and the error it returned
Remember(message, did, calls, err) ==
    LET all == <<[msg |-> message, did |-> did, ig |-> ignore_messages,
                  ix |-> index, nhub |-> Len(hub), hub |-> hub,
                  calls |-> calls, err |-> err]>> \o hist
    IN  SubSeq(all, 1, IF Len(all) < HistLen THEN Len(all) ELSE HistLen)

\* the message is skipped: `continue`
ListenSkip ==
    /\ running /\ queue # <<>>
    /\ LET message == Head(queue)
           verdict == ignore_message(ignore_messages, message)
       IN  /\ verdict.skip
           /\ ignore_messages' = verdict.ig
           /\ hist' = Remember(message, verdict.why, <<>>, "")
    /\ queue' = Tail(queue)
    /\ UNCHANGED <<frames, inotify, connected, index, disk, hub, now, running, events, synced>>

\* listen returning at the first handler error
ListenHandle_return_on_error(failAt) ==
    /\ running /\ queue # <<>>
    /\ LET message == Head(queue)
           verdict == ignore_message(ignore_messages, message)
           st == dispatch(HandlerState(verdict.ig, failAt), message)
       IN  /\ ~verdict.skip
           /\ message.kind # "Exit"
           /\ failAt = 0 \/ st.n >= failAt
           /\ ignore_messages' = st.ig
           /\ index' = st.ix
           /\ disk' = st.disk
           /\ hub' = st.hub
           /\ now' = st.now
           /\ running' = Ok(st)
           /\ hist' = Remember(message, IF Ok(st) THEN "ok" ELSE "err", st.calls, st.err)
    /\ queue' = Tail(queue)
    /\ UNCHANGED <<frames, inotify, connected, events, synced>>

\* the message is dispatched to its handler; the handler's error is logged
ListenHandle(failAt) ==
    /\ running /\ queue # <<>>
    /\ LET message == Head(queue)
           verdict == ignore_message(ignore_messages, message)
           st == dispatch(HandlerState(verdict.ig, failAt), message)
       IN  /\ ~verdict.skip
           /\ message.kind # "Exit"
           /\ failAt = 0 \/ st.n >= failAt
           /\ ignore_messages' = st.ig
           /\ index' = st.ix
           /\ disk' = st.disk
           /\ hub' = st.hub
           /\ now' = st.now
           /\ hist' = Remember(message, IF Ok(st) THEN "ok" ELSE "err", st.calls, st.err)
    /\ queue' = Tail(queue)
    /\ UNCHANGED <<frames, inotify, connected, running, events, synced>>

\* Exit taken as any other message: listen goes on
ListenExit_goes_on ==
    /\ running /\ queue # <<>>
    /\ Head(queue) = Exit
    /\ ~ignore_message(ignore_messages, Exit).skip
    /\ queue' = Tail(queue)
    /\ hist' = Remember(Exit, "exit", <<>>, "")
    /\ UNCHANGED <<frames, inotify, connected, ignore_messages, index, disk, hub, now, running, events, synced>>

\* Exit: listen returns
ListenExit ==
    /\ running /\ queue # <<>>
    /\ Head(queue) = Exit
    /\ ~ignore_message(ignore_messages, Exit).skip
    /\ running' = FALSE
    /\ queue' = Tail(queue)
    /\ hist' = Remember(Exit, "exit", <<>>, "")
    /\ UNCHANGED <<frames, inotify, connected, ignore_messages, index, disk, hub, now, events, synced>>

(***************************************************************************)
(* LocalWatcher::digest_event (local.rs, 50-106).  An absolute path is the *)
(* canonical workspace path followed by the relative path.                 *)
(***************************************************************************)
Workspace == <<<<"h", "o", "m", "e">>, <<"w", "s">>>>
Absolute(p) == Workspace \o p

strip_prefix(absolute_path, base) ==
    IF IsPrefix(base, absolute_path)
    THEN [ok |-> TRUE, path |-> SubSeq(absolute_path, Len(base) + 1, Len(absolute_path))]
    ELSE [ok |-> FALSE, path |-> <<>>]

\* a byte that is no UTF-8 text: file names are byte strings on disk
InvalidByte == "xFF"
NameRaw == <<"a", InvalidByte>>

\* util::path_to_string: a path that is not UTF-8 text has no string
path_to_string(p) ==
    IF \A k \in 1..Len(p) : \A i \in 1..Len(p[k]) : p[k][i] # InvalidByte
    THEN [ok |-> TRUE, path |-> p]
    ELSE [ok |-> FALSE, path |-> <<>>]

\* path_to_string(absolute_path.strip_prefix(&self.workspace_folder_path)?)?
relative_string(absolute_path) ==
    LET rel == strip_prefix(absolute_path, Workspace)
    IN  IF rel.ok THEN path_to_string(rel.path) ELSE rel

PathKinds == {"Create", "Write", "Remove", "Rename"}
IgnoredKinds == {"NoticeWrite", "NoticeRemove", "Chmod", "Rescan", "Error"}

\* digest_event without the ? of lines 56, 61, 66, 72 and 75: a path that
\* cannot be made relative is sent as it is
digest_event_result_unchecked(event) ==
    CASE event.kind = "Create" -> [ok |-> TRUE, messages |-> <<NewLocalFile(event.path)>>]
      [] event.kind = "Write" ->
             [ok |-> TRUE, messages |-> <<ModifiedLocalFile(event.path)>>]
      [] event.kind = "Remove" ->
             [ok |-> TRUE, messages |-> <<DeletedLocalFile(event.path)>>]
      [] event.kind = "Rename" ->
             [ok |-> TRUE, messages |-> <<RenamedLocalFile(event.path, event.dest)>>]
      [] OTHER -> [ok |-> TRUE, messages |-> <<>>]

\* what digest_event returns, and the messages it has sent by then
digest_event_result(event) ==
    LET rel == relative_string(event.path)
        dest == relative_string(event.dest)
        Failed == [ok |-> FALSE, messages |-> <<>>]
    IN  CASE event.kind = "Create" ->
                 IF rel.ok THEN [ok |-> TRUE, messages |-> <<NewLocalFile(rel.path)>>]
                 ELSE Failed
          [] event.kind = "Write" ->
                 IF rel.ok THEN [ok |-> TRUE, messages |-> <<ModifiedLocalFile(rel.path)>>]
                 ELSE Failed
          [] event.kind = "Remove" ->
                 IF rel.ok THEN [ok |-> TRUE, messages |-> <<DeletedLocalFile(rel.path)>>]
                 ELSE Failed
          [] event.kind = "Rename" ->
                 IF rel.ok /\ dest.ok
                 THEN [ok |-> TRUE,
                       messages |-> <<RenamedLocalFile(rel.path, dest.path)>>]
                 ELSE Failed
          [] OTHER -> [ok |-> TRUE, messages |-> <<>>]

\* the messages sent for one event of the notifier
digest_event(event) == digest_event_result(event).messages

Event(kind, p, q) == [kind |-> kind, path |-> p, dest |-> q]

(***************************************************************************)
(* LocalSync, the startup reconciler (local.rs, 130-249).                  *)
(***************************************************************************)
\* LocalSync::ignore_entry
ignore_entry(p) ==
    \/ starts_with(string_path_file_name(p), ".")
    \/ starts_with(string_path_file_name(p), "~")
    \/ starts_with(string_path_file_name(p), "#")

\* the entries WalkDir would yield if filter_entry did not prune
Walked_no_pruning(d) == {p \in DOMAIN d : ~ignore_entry(p)}

\* the entries WalkDir yields: filter_entry prunes an ignored directory
Walked(d) ==
    {p \in DOMAIN d : \A k \in 1..Len(p) : ~ignore_entry(SubSeq(p, 1, k))}

Orders(S) == {f \in [1..Cardinality(S) -> S] : \A i, j \in 1..Cardinality(S) :
                 i # j => f[i] # f[j]}

\* the entries of the walk in any order
WalkOrders_any(d) == Orders(Walked(d))

\* WalkDir yields a directory before its contents, and its contents before
\* anything else; the order of the entries of one directory is the system's
WalkOrders(d) ==
    {f \in Orders(Walked(d)) : \A i, j \in 1..Len(f) :
        (i # j /\ IsPrefix(f[i], f[j])) =>
            i < j /\ \A k \in i..j : IsPrefix(f[i], f[k])}

Flatten(ss) ==
    LET RECURSIVE go(_)
        go(k) == IF k = 0 THEN <<>> ELSE go(k - 1) \o ss[k]
    IN  go(Len(ss))

\* LocalSync::sync_disk_file: the messages sent for one walked entry
sync_disk_file(ix, d, p) ==
    IF ~relative_path_is_known(ix, p) THEN <<NewLocalFile(p)>>
    ELSE IF d[p].mtime # (CHOOSE e \in ix : e.path = p).mtime
    THEN <<ModifiedLocalFile(p)>>
    ELSE <<>>

\* LocalSync::sync_from_disk, for one order of the walk
sync_from_disk(ix, d, walk) ==
    Flatten([i \in 1..Len(walk) |-> sync_disk_file(ix, d, walk[i])])

\* LocalSync::sync_from_db, for one order of the rows
sync_from_db(d, rows) ==
    Flatten([i \in 1..Len(rows) |->
                IF ~OnDisk(d, rows[i]) THEN <<DeletedLocalFile(rows[i])>> ELSE <<>>])

\* LocalSync::sync
Sync ==
    /\ ~synced
    /\ synced' = TRUE
    /\ \E walk \in WalkOrders(disk), rows \in Orders({e.path : e \in index}) :
           queue' = queue \o sync_from_disk(index, disk, walk) \o sync_from_db(disk, rows)
    /\ UNCHANGED <<frames, inotify, connected, ignore_messages, index, disk, hub, now, running, events, hist>>

(***************************************************************************)
(* The environment: the user changes the workspace and the notifier        *)
(* reports it; another client changes the hub and the remote watcher       *)
(* reports it.                                                             *)
(***************************************************************************)
UserPaths == {<<NameA>>, <<NameB>>, <<NameA, NameB>>, <<NameDot>>}
RemoteNames == {NameA, NameB}
\* what the user and the other clients create under a name: a folder under
\* "a", "foo" and "bar", a file under any other name
TypeOf(name) == IF name \in {NameA, NameFoo, NameBar, NameHash} THEN "Folder" ELSE "File"

UserCreate(p) ==
    /\ ~OnDisk(disk, p) /\ ParentOnDisk(disk, p)
    /\ disk' = DiskCreate(disk, p, TypeOf(string_path_file_name(p)), now + 1)
    /\ now' = now + 1
    /\ queue' = queue \o digest_event(Event("Create", Absolute(p), <<>>))
    /\ events' = events + 1
    /\ UNCHANGED <<frames, inotify, connected, ignore_messages, index, hub, running, synced, hist>>

UserWrite(p) ==
    /\ OnDisk(disk, p) /\ ~IsDir(disk, p)
    /\ disk' = [disk EXCEPT ![p].mtime = now + 1]
    /\ now' = now + 1
    /\ queue' = queue \o digest_event(Event("Write", Absolute(p), <<>>))
    /\ events' = events + 1
    /\ UNCHANGED <<frames, inotify, connected, ignore_messages, index, hub, running, synced, hist>>

UserRemove(p) ==
    /\ OnDisk(disk, p) /\ Children(disk, p) = {}
    /\ disk' = DiskRemove(disk, p, now + 1)
    /\ now' = now + 1
    /\ queue' = queue \o digest_event(Event("Remove", Absolute(p), <<>>))
    /\ events' = events + 1
    /\ UNCHANGED <<frames, inotify, connected, ignore_messages, index, hub, running, synced, hist>>

UserRename(p, q) ==
    /\ p # q /\ ~OnDisk(disk, q) /\ CanRename(disk, p, q)
    /\ disk' = DiskMove(disk, p, q, now + 1)
    /\ now' = now + 1
    /\ queue' = queue \o digest_event(Event("Rename", Absolute(p), Absolute(q)))
    /\ events' = events + 1
    /\ UNCHANGED <<frames, inotify, connected, ignore_messages, index, hub, running, synced, hist>>

RemoteCreate(name, parent) ==
    /\ Len(hub) < MaxId
    /\ ParentOk(hub, parent) /\ Siblings(hub, parent, name) = {}
    /\ hub' = Append(hub, [parent |-> parent, filename |-> name, type |-> TypeOf(name),
                           rev |-> 1, live |-> TRUE])
    /\ queue' = Append(queue, NewRemoteFile(Len(hub) + 1))
    /\ events' = events + 1
    /\ UNCHANGED <<frames, inotify, connected, ignore_messages, index, disk, now, running, synced, hist>>

RemoteModify(id) ==
    /\ IsLive(hub, id) /\ hub[id].type = "File"
    /\ hub' = [hub EXCEPT ![id].rev = @ + 1]
    /\ queue' = Append(queue, ModifiedRemoteFile(id))
    /\ events' = events + 1
    /\ UNCHANGED <<frames, inotify, connected, ignore_messages, index, disk, now, running, synced, hist>>

RemoteRename(id, name) ==
    /\ IsLive(hub, id) /\ Siblings(hub, hub[id].parent, name) = {}
    /\ hub' = [hub EXCEPT ![id].rev = @ + 1, ![id].filename = name]
    /\ queue' = Append(queue, ModifiedRemoteFile(id))
    /\ events' = events + 1
    /\ UNCHANGED <<frames, inotify, connected, ignore_messages, index, disk, now, running, synced, hist>>

RemoteDelete(id) ==
    /\ IsLive(hub, id)
    /\ \A i \in 1..Len(hub) : hub[i].live => hub[i].parent # id
    /\ hub' = [hub EXCEPT ![id].rev = @ + 1, ![id].live = FALSE]
    /\ queue' = Append(queue, DeletedRemoteFile(id))
    /\ events' = events + 1
    /\ UNCHANGED <<frames, inotify, connected, ignore_messages, index, disk, now, running, synced, hist>>

\* a watcher reports a mutation the handler made: an echo it predicted
Echo(m) ==
    /\ contains(ignore_messages, m)
    /\ queue' = Append(queue, m)
    /\ events' = events + 1
    /\ UNCHANGED <<frames, inotify, connected, ignore_messages, index, disk, hub, now, running, synced, hist>>

SendExit ==
    /\ running
    /\ queue' = Append(queue, Exit)
    /\ events' = events + 1
    /\ UNCHANGED <<frames, inotify, connected, ignore_messages, index, disk, hub, now, running, synced, hist>>

(***************************************************************************)
(* The state after OperationalHandler::new: an empty ignore list, and an   *)
(* index that is empty (with an empty workspace, or a workspace never      *)
(* synchronized that holds folder a and file a/b) or holds a workspace     *)
(* synchronized by an earlier run (folder a, content 1, and file a/b,      *)
(* content 2).                                                             *)
(***************************************************************************)
SyncedDisk ==
    (<<NameA>> :> [type |-> "Folder", mtime |-> 1])
    @@ (<<NameA, NameB>> :> [type |-> "File", mtime |-> 1])
SyncedHub ==
    <<[parent |-> 0, filename |-> NameA, type |-> "Folder", rev |-> 1, live |-> TRUE],
      [parent |-> 1, filename |-> NameB, type |-> "File", rev |-> 1, live |-> TRUE]>>
SyncedIndex ==
    {[path |-> <<NameA>>, id |-> 1, rev |-> 1, mtime |-> 1],
     [path |-> <<NameA, NameB>>, id |-> 2, rev |-> 1, mtime |-> 1]}

Init ==
    /\ queue = <<>> /\ frames = <<>> /\ inotify = <<>> /\ connected = TRUE
    /\ ignore_messages = <<>>
    /\ running = TRUE
    /\ events = 0
    /\ hist = <<>>
    /\ synced = FALSE
    /\ \/ disk = <<>> /\ hub = <<>> /\ index = {} /\ now = 0
       \/ disk = SyncedDisk /\ hub = <<>> /\ index = {} /\ now = 1
       \/ disk = SyncedDisk /\ hub = SyncedHub /\ index = SyncedIndex /\ now = 1

\* the environment acts at most n times
Budget(n) == events < n

Listen ==
    \/ ListenSkip
    \/ \E failAt \in 0..MaxCalls : ListenHandle(failAt)
    \/ ListenExit

Next ==
    \/ Listen
    \/ \E p \in UserPaths : Budget(MaxEvents) /\ UserCreate(p)
    \/ \E p \in UserPaths : Budget(MaxEvents) /\ UserWrite(p)
    \/ \E p \in UserPaths : Budget(MaxEvents) /\ UserRemove(p)
    \/ \E p, q \in UserPaths : Budget(MaxEvents) /\ UserRename(p, q)
    \/ \E name \in RemoteNames, parent \in 0..MaxId :
           Budget(MaxEvents) /\ RemoteCreate(name, parent)
    \/ \E id \in 1..MaxId : Budget(MaxEvents) /\ RemoteModify(id)
    \/ \E id \in 1..MaxId, name \in RemoteNames : Budget(MaxEvents) /\ RemoteRename(id, name)
    \/ \E id \in 1..MaxId : Budget(MaxEvents) /\ RemoteDelete(id)
    \/ \E i \in 1..Len(ignore_messages) : Budget(MaxEvents) /\ Echo(ignore_messages[i])
    \/ Budget(MaxEvents) /\ SendExit
    \/ Sync

Spec == Init /\ [][Next]_vars

(***************************************************************************)
(* The remote side alone: other clients create contents on the hub of an   *)
(* empty workspace and the local watcher reports what the handler writes.  *)
(***************************************************************************)
InitEmpty ==
    /\ queue = <<>> /\ ignore_messages = <<>> /\ running = TRUE /\ events = 0
    /\ hist = <<>> /\ synced = TRUE /\ frames = <<>> /\ inotify = <<>> /\ connected = TRUE
    /\ disk = <<>> /\ hub = <<>> /\ index = {} /\ now = 0

NextRemote ==
    \/ Listen
    \/ \E name \in RemoteNames, parent \in 0..MaxId :
           Budget(MaxRemoteEvents) /\ RemoteCreate(name, parent)
    \/ \E i \in 1..Len(ignore_messages) :
           Budget(MaxRemoteEvents) /\ Echo(ignore_messages[i])
    \/ Budget(MaxRemoteEvents) /\ SendExit

SpecRemote == InitEmpty /\ [][NextRemote]_vars

(***************************************************************************)
(* Scenario 1: foo/bar/baz.txt is created in an empty workspace.           *)
(***************************************************************************)
NestedPaths == {<<NameFoo>>, <<NameFoo, NameBar>>, <<NameFoo, NameBar, NameBaz>>}

NextNested ==
    \/ Listen
    \/ \E p \in NestedPaths : Budget(MaxNestedEvents) /\ UserCreate(p)
    \/ \E i \in 1..Len(ignore_messages) :
           Budget(MaxNestedEvents) /\ Echo(ignore_messages[i])
    \/ Budget(MaxNestedEvents) /\ SendExit

SpecNested == InitEmpty /\ [][NextNested]_vars

(***************************************************************************)
(* Renames: the user creates folder a and file b in an empty workspace and *)
(* moves the file in and out of the folder, while another client may       *)
(* create a content named a on the hub; the user may stop the program.     *)
(***************************************************************************)
RenamePaths == {<<NameA>>, <<NameB>>, <<NameA, NameB>>}

NextRename ==
    \/ Listen
    \/ \E p \in RenamePaths : Budget(MaxRenameEvents) /\ UserCreate(p)
    \/ \E p, q \in RenamePaths : Budget(MaxRenameEvents) /\ UserRename(p, q)
    \/ Budget(MaxRenameEvents) /\ RemoteCreate(NameA, 0)
    \/ Budget(MaxRenameEvents) /\ SendExit

SpecRename == InitEmpty /\ [][NextRename]_vars

(***************************************************************************)
(* Startup: the program starts on a workspace that was never synchronized, *)
(* or that was changed since an earlier run synchronized folder a and file *)
(* a/b; it may hold the backup file a~ and the folder #a with a file in    *)
(* it.  The reconciler runs, listen                                        *)
(* handles what it sent and the user may stop the program.                 *)
(***************************************************************************)
StartupPaths ==
    {<<NameA>>, <<NameA, NameB>>, <<NameTilde>>, <<NameHash>>, <<NameHash, NameB>>}

StartupDisks ==
    UNION {{d \in [S -> [type : {"Folder", "File"}, mtime : 1..2]] :
               \A p \in S : d[p].type = TypeOf(string_path_file_name(p))} :
           S \in {T \in SUBSET StartupPaths :
                      \A p \in T : Len(p) > 1 => parent_path(p) \in T}}

\* the earlier run had synchronized file b as well; it is gone from disk
RemovedHub ==
    Append(SyncedHub,
           [parent |-> 0, filename |-> NameB, type |-> "File", rev |-> 1, live |-> TRUE])
RemovedIndex == SyncedIndex \cup {[path |-> <<NameB>>, id |-> 3, rev |-> 1, mtime |-> 1]}

InitStartup ==
    /\ queue = <<>> /\ ignore_messages = <<>> /\ running = TRUE /\ events = 0
    /\ hist = <<>> /\ synced = FALSE /\ now = 2 /\ frames = <<>>
    /\ inotify = <<>> /\ connected = TRUE
    /\ disk \in StartupDisks
    /\ \/ hub = <<>> /\ index = {}
       \/ hub = SyncedHub /\ index = SyncedIndex
       \/ hub = RemovedHub /\ index = RemovedIndex

NextStartup ==
    \/ Listen
    \/ Sync
    \/ Budget(MaxEvents) /\ SendExit

SpecStartup == InitStartup /\ [][NextStartup]_vars

(***************************************************************************)
(* new_remote_file one call at a time (operation.rs, 331-386), on a hub    *)
(* whose parent chains may loop: two folders a and b, each at the root, in *)
(* the other or in itself.  frames holds the calls in progress; hist is    *)
(* not kept here.                                                          *)
(***************************************************************************)
CycleHubs ==
    {<<[parent |-> p1, filename |-> NameA, type |-> "Folder", rev |-> 1, live |-> TRUE],
       [parent |-> p2, filename |-> NameB, type |-> "Folder", rev |-> 1, live |-> TRUE]>> :
     p1 \in 0..2, p2 \in 0..2}

InitCycle ==
    /\ queue = <<>> /\ ignore_messages = <<>> /\ running = TRUE /\ events = 0
    /\ hist = <<>> /\ synced = TRUE /\ frames = <<>> /\ inotify = <<>> /\ connected = TRUE
    /\ disk = <<>> /\ index = {} /\ now = 0
    /\ hub \in CycleHubs

\* the remote watcher reports content id
RemoteReport(id) ==
    /\ IsLive(hub, id)
    /\ queue' = Append(queue, NewRemoteFile(id))
    /\ events' = events + 1
    /\ UNCHANGED <<frames, inotify, connected, ignore_messages, index, disk, hub, now, running, synced, hist>>

Frame(id) == [id |-> id, pc |-> "enter", path |-> NoPath]
Top == frames[Len(frames)]

\* line 118: listen dispatches NewRemoteFile(id)
NewRemoteCall ==
    /\ running /\ queue # <<>> /\ frames = <<>>
    /\ Head(queue).kind = "NewRemoteFile"
    /\ ~ignore_message(ignore_messages, Head(queue)).skip
    /\ frames' = <<Frame(Head(queue).id)>>
    /\ UNCHANGED <<queue, ignore_messages, index, disk, hub, now, running, events,
                   synced, hist, inotify, connected>>

\* lines 332-349: the content and its path are fetched, NewLocalFile(path)
\* is pushed, and new_remote_file is called for a parent that is not
\* indexed; an error returns through every call in progress
NewRemoteEnter(failAt, returns) ==
    /\ frames # <<>> /\ Top.pc = "enter"
    /\ LET s1 == get_remote_content(HandlerState(ignore_messages, failAt), Top.id)
           s2 == Then(s1, LAMBDA s : build_relative_path_open(s, s.r, returns))
           here == [Top EXCEPT !.pc = "write", !.path = s2.r]
       IN  /\ failAt = 0 \/ s2.n >= failAt
           /\ IF ~Ok(s2)
              THEN /\ frames' = <<>> /\ queue' = Tail(queue)
                   /\ UNCHANGED ignore_messages
              ELSE /\ ignore_messages' = Append(ignore_messages, NewLocalFile(s2.r))
                   /\ queue' = queue
                   /\ IF s1.r.parent # 0 /\ ~content_id_is_known(index, s1.r.parent)
                      THEN /\ Len(frames) < MaxFrames
                           /\ frames' = SubSeq(frames, 1, Len(frames) - 1)
                                             \o <<here, Frame(s1.r.parent)>>
                      ELSE frames' = SubSeq(frames, 1, Len(frames) - 1) \o <<here>>
    /\ UNCHANGED <<index, disk, hub, now, running, events, synced, hist, inotify, connected>>

\* lines 351-385: the content is written on disk and indexed, and the call
\* returns to its caller, or to listen
NewRemoteWrite(failAt) ==
    /\ frames # <<>> /\ Top.pc = "write"
    /\ LET content == [content_id |-> Top.id] @@ hub[Top.id]
           st == Then(write_on_disk(HandlerState(ignore_messages, failAt), content,
                                    Top.path), LAMBDA s :
                 insert_remote(s, Top.id, Top.path))
       IN  /\ failAt = 0 \/ st.n >= failAt
           /\ disk' = st.disk /\ index' = st.ix /\ now' = st.now
           /\ frames' = IF Ok(st) THEN SubSeq(frames, 1, Len(frames) - 1) ELSE <<>>
           /\ queue' = IF Ok(st) /\ Len(frames) > 1 THEN queue ELSE Tail(queue)
    /\ UNCHANGED <<ignore_messages, hub, running, events, synced, hist, inotify, connected>>

NextCycle ==
    \/ \E id \in 1..MaxId : Budget(MaxCycleEvents) /\ RemoteReport(id)
    \/ NewRemoteCall
    \/ \E failAt \in 0..MaxCalls, returns \in BOOLEAN : NewRemoteEnter(failAt, returns)
    \/ \E failAt \in 0..MaxCalls : NewRemoteWrite(failAt)

SpecCycle == InitCycle /\ [][NextCycle]_vars

(***************************************************************************)
(* The local watcher alone (local.rs, 32-106): the notifier reports events *)
(* of every kind, on the workspace root, on entries in it, on an entry     *)
(* whose name is not UTF-8 text and on a path outside the workspace; the   *)
(* watcher takes them one at a time and digests them.                      *)
(***************************************************************************)
Outside == <<<<"h", "o", "m", "e">>, <<"x">>>>
WatchPaths ==
    {Workspace, Absolute(<<NameA>>), Absolute(<<NameA, NameB>>), Absolute(<<NameRaw>>),
     Outside}
WatchEvents ==
    {Event(k, p, <<>>) : k \in (PathKinds \cup IgnoredKinds) \ {"Rename", "Rescan"},
                         p \in WatchPaths}
    \cup {Event("Rename", p, q) : p \in WatchPaths, q \in WatchPaths}
    \cup {Event("Rescan", <<>>, <<>>)}

\* the notifier sends an event on its channel
Notifier(event) ==
    /\ inotify' = Append(inotify, event)
    /\ events' = events + 1
    /\ UNCHANGED <<frames, queue, ignore_messages, index, disk, hub, now, running,
                   synced, hist, connected>>

\* LocalWatcher::listen, one iteration: an error of digest_event is logged
WatcherListen ==
    /\ inotify # <<>>
    /\ inotify' = Tail(inotify)
    /\ queue' = queue \o digest_event_result(Head(inotify)).messages
    /\ UNCHANGED <<frames, ignore_messages, index, disk, hub, now, running, events,
                   synced, hist, connected>>

NextWatch ==
    \/ \E event \in WatchEvents : Budget(MaxWatchEvents) /\ Notifier(event)
    \/ WatcherListen

SpecWatch == InitEmpty /\ [][NextWatch]_vars

(***************************************************************************)
(* The end of the producers (operation.rs, 73-76): the watchers hold the   *)
(* senders of the queue; once every sender is dropped, recv() still yields *)
(* the messages that wait, and fails when none is left.                    *)
(***************************************************************************)
\* what hist keeps of an iteration whose recv() failed
RecvError == [kind |-> "RecvError", path |-> NoPath, after |-> NoPath, id |-> 0]

\* the last sender of the queue is dropped
DropSenders ==
    /\ connected
    /\ connected' = FALSE
    /\ UNCHANGED <<frames, inotify, queue, ignore_messages, index, disk, hub, now,
                   running, events, synced, hist>>

\* a failed recv() taken as the end of the messages: listen returns
ListenDisconnected_returns ==
    /\ running /\ queue = <<>> /\ ~connected
    /\ running' = FALSE
    /\ hist' = Remember(RecvError, "closed", <<>>, "")
    /\ UNCHANGED <<frames, inotify, connected, queue, ignore_messages, index, disk, hub,
                   now, events, synced>>

\* lines 75-76: recv() fails, the for loop has nothing to run on, and loop
\* starts over
ListenDisconnected ==
    /\ running /\ queue = <<>> /\ ~connected
    /\ hist' = Remember(RecvError, "closed", <<>>, "")
    /\ UNCHANGED <<frames, inotify, connected, queue, ignore_messages, index, disk, hub,
                   now, running, events, synced>>

NextDrop ==
    \/ Listen
    \/ ListenDisconnected
    \/ \E p \in UserPaths : connected /\ Budget(MaxDropEvents) /\ UserCreate(p)
    \/ connected /\ Budget(MaxDropEvents) /\ RemoteCreate(NameA, 0)
    \/ connected /\ Budget(MaxDropEvents) /\ SendExit
    \/ DropSenders

SpecDrop == InitEmpty /\ [][NextDrop]_vars

(***************************************************************************)
(* Vocabulary of the properties.  hist[1] is the last message that listen  *)
(* received, hist[2] the one before it.                                    *)
(***************************************************************************)
Count(list, m) == Cardinality({i \in 1..Len(list) : list[i] = m})
Range(list) == {list[i] : i \in 1..Len(list)}
SameBag(a, b) == \A m \in Range(a) \cup Range(b) : Count(a, m) = Count(b, m)
\* list a is list b less one entry equal to m
LessOne(a, b, m) ==
    \A x \in Range(a) \cup Range(b) :
        Count(a, x) = Count(b, x) - (IF x = m THEN 1 ELSE 0)
Pushed(h, list) == SubSeq(list, Len(h.ig) + 1, Len(list))
Dispatched(h) == h.did \in {"ok", "err"}
Dropped(h) == h.did \in {"planned", "filter"}
Paths(ix) == {e.path : e \in ix}
Ids(ix) == {e.id : e \in ix}

\* C1: when listen consumes a message that equals entries of the ignore
\* list, the message is skipped and exactly one matching entry leaves the
\* list, so that k registrations swallow k messages and not more.
C1_OneEntryPerMessage ==
    (hist # <<>> /\ hist[1].did = "planned")
        => LessOne(ignore_messages, hist[1].ig, hist[1].msg)

\* handling h created rel on the hub under a content id the hub had not
\* allocated before; ix is the index as the handler left it
Fresh(h, ix) ==
    /\ h.msg.kind = "NewLocalFile" /\ h.did = "ok"
    /\ h.msg.path \notin Paths(h.ix)
    /\ h.msg.path \in Paths(ix)
    /\ get_content_id_from_path(ix, h.msg.path) > h.nhub

CreatedType(h) == h.calls[Len(h.calls)][3]

\* a file was created and its two echoes were received next
FileRound ==
    /\ Len(hist) >= 3
    /\ Fresh(hist[3], hist[2].ix)
    /\ CreatedType(hist[3]) = "File"
    /\ LET id == get_content_id_from_path(hist[2].ix, hist[3].msg.path)
       IN  hist[2].msg = NewRemoteFile(id) /\ hist[1].msg = ModifiedRemoteFile(id)

\* a folder was created and its echo was received next
FolderRound ==
    /\ Len(hist) >= 2
    /\ Fresh(hist[2], hist[1].ix)
    /\ CreatedType(hist[2]) = "Folder"
    /\ hist[1].msg = NewRemoteFile(get_content_id_from_path(hist[1].ix, hist[2].msg.path))

FileRoundClean ==
    /\ hist[2].did = "planned" /\ hist[1].did = "planned"
    /\ hist[1].calls = <<>> /\ hist[2].calls = <<>>
    /\ index = hist[2].ix
    /\ SameBag(ignore_messages, hist[3].ig)

FolderRoundClean ==
    /\ hist[1].did = "planned" /\ hist[1].calls = <<>>
    /\ index = hist[1].ix
    /\ SameBag(ignore_messages, hist[2].ig)

ParentWasIndexed(h) ==
    Len(h.msg.path) = 1 \/ parent_path(h.msg.path) \in Paths(h.ix)

\* C2 as stated: after a successful NewLocalFile(rel) that obtained a fresh
\* content id, the echoes NewRemoteFile(id) and ModifiedRemoteFile(id) are
\* skipped without a hub call or an index change, and the ignore list is
\* again what it was before the message.
C2_LocalRoundTripAsStated ==
    /\ FileRound => FileRoundClean
    /\ FolderRound => FolderRoundClean

\* C2: when rel sits at the workspace root or in an indexed folder, the
\* echoes of a successful fresh NewLocalFile(rel) are skipped without a hub
\* call or an index change and leave the ignore list as it was before.
C2_LocalRoundTrip ==
    /\ (FileRound /\ ParentWasIndexed(hist[3])) => FileRoundClean
    /\ (FolderRound /\ ParentWasIndexed(hist[2])) => FolderRoundClean

C2_Witness ==
    /\ FileRound /\ ParentWasIndexed(hist[3]) /\ FileRoundClean
    /\ hist[3].ig # <<>>

\* handling h wrote content id of the hub to disk and indexed it, with n
\* parent folders materialized on the way; ix is the index as it left it
Written(h, ix, n) ==
    /\ h.msg.kind = "NewRemoteFile" /\ h.did = "ok"
    /\ h.msg.id \notin Ids(h.ix)
    /\ h.msg.id \in Ids(ix)
    /\ Cardinality(ix) = Cardinality(h.ix) + 1 + n

\* C3 as stated: after a successful NewRemoteFile(id) that wrote rel, the
\* echo NewLocalFile(rel), and the echo NewLocalFile(parent) of a parent
\* folder the handler materialized, are skipped without a hub call or an
\* index change, and the ignore list is again what it was before.
C3_RemoteRoundTrip ==
    /\ (/\ Len(hist) >= 2
        /\ Written(hist[2], hist[1].ix, 0)
        /\ hist[1].msg = NewLocalFile(get_path_from_content_id(hist[1].ix, hist[2].msg.id)))
           => /\ hist[1].did = "planned" /\ hist[1].calls = <<>>
              /\ index = hist[1].ix
              /\ SameBag(ignore_messages, hist[2].ig)
    /\ (/\ Len(hist) >= 3
        /\ Written(hist[3], hist[2].ix, 1)
        /\ LET rel == get_path_from_content_id(hist[2].ix, hist[3].msg.id)
           IN  {hist[2].msg, hist[1].msg}
                   = {NewLocalFile(rel), NewLocalFile(parent_path(rel))})
           => /\ hist[1].did = "planned" /\ hist[2].did = "planned"
              /\ hist[1].calls = <<>> /\ hist[2].calls = <<>>
              /\ index = hist[2].ix
              /\ SameBag(ignore_messages, hist[3].ig)

\* C4: listen takes the messages one at a time from the head of the queue,
\* in the order they entered it; no message leaves the queue otherwise, a
\* handler's error does not stop the loop and only Exit does.
C4_Fifo ==
    [][\/ /\ IsPrefix(queue, queue')
          /\ hist' = hist /\ running' = running
       \/ /\ running /\ queue # <<>> /\ queue' = Tail(queue)
          /\ hist' # <<>> /\ hist'[1].msg = Head(queue)
          /\ hist'[1].did \in {"planned", "filter", "ok", "err", "exit"}
          /\ (hist'[1].did = "exit") = (Head(queue) = Exit)
          /\ running' = (hist'[1].did # "exit")]_vars

C4_Witness ==
    /\ Len(hist) >= 3 /\ running
    /\ hist[3].did = "err" /\ hist[2].did = "ok" /\ hist[1].did = "planned"

\* C5: the index is a bijection between relative paths and content ids.
C5_Bijection ==
    \A e1, e2 \in index : (e1.path = e2.path \/ e1.id = e2.id) => e1 = e2

\* NewRemoteFile for an indexed content id got as far as the index insert
C5_Witness ==
    /\ hist # <<>> /\ hist[1].msg.kind = "NewRemoteFile"
    /\ hist[1].msg.id \in Ids(hist[1].ix)
    /\ hist[1].did = "err"
    /\ \E i \in 1..Len(hist[1].calls) : hist[1].calls[i][1] = "File::create"
    /\ index = hist[1].ix

\* the folder that handling h renamed on disk: <<old, new>> of its fs::rename
Renamed(h) ==
    {<<h.calls[i][2], h.calls[i][3]>> : i \in {j \in 1..Len(h.calls) :
        h.calls[j][1] = "fs::rename" /\ h.calls[j][2] # h.calls[j][3]}}

\* C6: when ModifiedRemoteFile(id) finds the remote folder renamed, the
\* directory is renamed on disk, the index entry of id carries the new
\* path and ModifiedLocalFile(new_rel) is registered on the ignore list.
C6_FolderRenameIndexed ==
    (/\ hist # <<>> /\ hist[1].msg.kind = "ModifiedRemoteFile" /\ hist[1].did = "ok"
     /\ Len(hist[1].calls) = 3 /\ Renamed(hist[1]) # {})
        => \A r \in Renamed(hist[1]) :
               /\ contains(ignore_messages, ModifiedLocalFile(r[2]))
               /\ hist[1].msg.id \in Ids(index)
               /\ get_path_from_content_id(index, hist[1].msg.id) = r[2]

Hidden(name) == starts_with(name, ".") \/ ends_with(name, "~")

\* C7: a NewLocalFile, ModifiedLocalFile, DeletedLocalFile or
\* RenamedLocalFile message that names a path whose basename starts with
\* "." or ends with "~" is dropped: no hub call, no index change.
C7_HiddenDropped ==
    (/\ hist # <<>>
     /\ hist[1].msg.kind \in {"NewLocalFile", "ModifiedLocalFile",
                              "DeletedLocalFile", "RenamedLocalFile"}
     /\ \/ Hidden(string_path_file_name(hist[1].msg.path))
        \/ /\ hist[1].msg.kind = "RenamedLocalFile"
           /\ Hidden(string_path_file_name(hist[1].msg.after)))
        => Dropped(hist[1]) /\ hist[1].calls = <<>> /\ index = hist[1].ix

Foo == <<NameFoo>>
FooBar == <<NameFoo, NameBar>>
FooBarBaz == <<NameFoo, NameBar, NameBaz>>

\* the three NewLocalFile messages of the creation were handled, each Ok,
\* starting from an empty workspace
NestedHandled ==
    /\ Len(hist) >= 3
    /\ hist[3].msg = NewLocalFile(Foo) /\ hist[3].did = "ok"
    /\ hist[2].msg = NewLocalFile(FooBar) /\ hist[2].did = "ok"
    /\ hist[1].msg = NewLocalFile(FooBarBaz) /\ hist[1].did = "ok"
    /\ hist[3].ix = {} /\ hist[3].ig = <<>> /\ hist[3].nhub = 0

NestedCreates ==
    SelectSeq(hist[3].calls \o hist[2].calls \o hist[1].calls,
              LAMBDA c : c[1] = "create_content")

NestedExpected ==
    /\ Paths(index) = {Foo, FooBar, FooBarBaz} /\ Cardinality(index) = 3
    /\ LET foo == get_content_id_from_path(index, Foo)
           bar == get_content_id_from_path(index, FooBar)
           baz == get_content_id_from_path(index, FooBarBaz)
       IN  /\ NestedCreates = << <<"create_content", Foo, "Folder", 0>>,
                                 <<"create_content", FooBar, "Folder", foo>>,
                                 <<"create_content", FooBarBaz, "File", bar>> >>
           /\ Cardinality({foo, bar, baz}) = 3
           /\ hub[foo].parent = 0 /\ hub[bar].parent = foo /\ hub[baz].parent = bar
           /\ ignore_messages = <<NewRemoteFile(foo), NewRemoteFile(bar),
                                  NewRemoteFile(baz), ModifiedRemoteFile(baz)>>

\* C8: in an empty workspace, once the NewLocalFile messages of the
\* creation of foo/bar/baz.txt have been handled, the hub got exactly three
\* creates, foo, foo/bar, foo/bar/baz.txt in this order, each child under
\* the content id just obtained for its parent; the index holds these three
\* entries and the ignore list NewRemoteFile of each and ModifiedRemoteFile
\* of the file.
C8_NestedCreate == NestedHandled => NestedExpected

C8_Witness == NestedHandled /\ NestedExpected

\* C9: every index entry whose path lies inside a directory has that
\* directory indexed too.
C9_ParentIndexed ==
    \A e \in index : Len(e.path) > 1 => parent_path(e.path) \in Paths(index)

RemoteKinds == {"NewRemoteFile", "ModifiedRemoteFile", "DeletedRemoteFile"}

\* C10 as stated: every NewRemoteFile, ModifiedRemoteFile or
\* DeletedRemoteFile entry of the ignore list names an indexed content id.
C10_IgnoredIdsIndexed ==
    \A m \in Range(ignore_messages) : m.kind \in RemoteKinds => m.id \in Ids(index)

\* C10: after a message is handled, every NewRemoteFile or
\* ModifiedRemoteFile entry that its handler pushed on the ignore list names
\* an indexed content id.
C10_PushedIdsIndexed ==
    (hist # <<>> /\ Dispatched(hist[1]))
        => \A m \in Range(Pushed(hist[1], ignore_messages)) :
               m.kind \in {"NewRemoteFile", "ModifiedRemoteFile"} => m.id \in Ids(index)

C10_Witness ==
    /\ hist # <<>> /\ hist[1].did = "err"
    /\ \E m \in Range(Pushed(hist[1], ignore_messages)) :
           m.kind = "NewRemoteFile" /\ m.id \in Ids(index)

(***************************************************************************)
(* Error handling.                                                         *)
(***************************************************************************)
\* the errors a failed hub call returns with (error.rs, ClientError)
HubErrors == {"RequestError", "NotFoundResponse"}

\* the index rows of the content message m is about: the rows of its content
\* id and, for a local message, the rows of its path; before is the index
\* the handler started from
EntryOf(ix, before, m) ==
    IF m.kind \in RemoteKinds THEN {e \in ix : e.id = m.id}
    ELSE {e \in ix : \/ e.path = m.path
                     \/ \E b \in before : b.path = m.path /\ b.id = e.id}

\* C11: when a hub call of a handler fails, the index entry of the message's
\* content (path, revision id, mtime) is what it was before the message.
C11_IndexAfterCalls ==
    (hist # <<>> /\ hist[1].did = "err" /\ hist[1].err \in HubErrors)
        => EntryOf(index, hist[1].ix, hist[1].msg)
               = EntryOf(hist[1].ix, hist[1].ix, hist[1].msg)

\* listen takes message m in this step
Takes(m) == running /\ queue # <<>> /\ Head(queue) = m /\ queue' = Tail(queue)

\* the handler of h failed in the hub call trash_content
TrashFailed(h) ==
    /\ h.did = "err" /\ h.err \in HubErrors
    /\ h.calls # <<>> /\ h.calls[Len(h.calls)][1] = "trash_content"

\* C12: when trash fails while DeletedLocalFile(rel) is handled, the index
\* and the ignore list are left as they were; a run of the reconciler emits
\* DeletedLocalFile(rel) for every indexed rel absent from disk; when the
\* handler of DeletedLocalFile(rel) succeeds, trash was called and rel is
\* no longer indexed.
C12_TrashRetry ==
    [][/\ \A rel \in Paths(index) :
            Takes(DeletedLocalFile(rel)) /\ hist' # hist =>
                /\ TrashFailed(hist'[1]) =>
                       index' = index /\ ignore_messages' = ignore_messages
                /\ hist'[1].did = "ok" =>
                       /\ rel \notin Paths(index')
                       /\ hist'[1].calls =
                              <<<<"trash_content", get_content_id_from_path(index, rel)>>>>
       /\ (~synced /\ synced') =>
              \A rel \in Paths(index) : ~OnDisk(disk, rel) =>
                  contains(SubSeq(queue', Len(queue) + 1, Len(queue')),
                           DeletedLocalFile(rel))]_vars

\* trash failed for rel, the reconciler ran, and the retry removed the entry
C12_Witness ==
    /\ synced
    /\ \E i, j \in 1..Len(hist) :
          /\ i < j
          /\ hist[j].msg.kind = "DeletedLocalFile" /\ TrashFailed(hist[j])
          /\ hist[i].msg = hist[j].msg /\ hist[i].did = "ok"
          /\ hist[i].ix = hist[j].ix
          /\ hist[i].msg.path \notin Paths(index)

\* the positions in the calls of h where the hub create for rel was
\* answered AlreadyExists
ExistingAnswers(h, rel) ==
    {k \in 1..(Len(h.calls) - 1) :
        /\ h.calls[k][1] = "create_content" /\ h.calls[k][2] = rel
        /\ h.calls[k + 1][1] = "AlreadyExistResponse"}
CreateCalls(h, rel) ==
    {k \in 1..Len(h.calls) : h.calls[k][1] = "create_content" /\ h.calls[k][2] = rel}

\* listen takes NewLocalFile(rel) for an unindexed rel in this step and the
\* hub answers the create with AlreadyExists(id, rev); unindexed: id is
\* required to be absent from the index
ExistingAnswered(unindexed) ==
    /\ running /\ queue # <<>> /\ queue' = Tail(queue) /\ hist' # hist
    /\ Head(queue).kind = "NewLocalFile"
    /\ Head(queue).path \notin Paths(index)
    /\ Dispatched(hist'[1])
    /\ ExistingAnswers(hist'[1], Head(queue).path) # {}
    /\ unindexed =>
           \A k \in ExistingAnswers(hist'[1], Head(queue).path) :
               hist'[1].calls[k + 1][2] \notin Ids(index)

\* the handler returned Ok, the index holds (rel, id, rev, disk mtime) and
\* the create was called once
ExistingInserted ==
    LET rel == Head(queue).path
        h == hist'[1]
    IN  /\ h.did = "ok"
        /\ Cardinality(CreateCalls(h, rel)) = 1
        /\ \A k \in ExistingAnswers(h, rel) :
               [path |-> rel, id |-> h.calls[k + 1][2], rev |-> h.calls[k + 1][3],
                mtime |-> disk'[rel].mtime] \in index'

\* C13 as stated: when the hub answers the create of NewLocalFile(rel) with
\* AlreadyExists(id, rev), the handler succeeds, inserts (rel, id, rev, disk
\* mtime) in the index and makes no second create call.
C13_ExistingAsStated == [][ExistingAnswered(FALSE) => ExistingInserted]_vars

\* C13: the same when id is not in the index yet.
C13_ExistingInserted == [][ExistingAnswered(TRUE) => ExistingInserted]_vars

C13_Witness ==
    /\ hist # <<>> /\ hist[1].msg.kind = "NewLocalFile" /\ hist[1].did = "ok"
    /\ ExistingAnswers(hist[1], hist[1].msg.path) # {}
    /\ hist[1].msg.path \notin Paths(hist[1].ix)
    /\ hist[1].msg.path \in Paths(index)

(***************************************************************************)
(* Local renames.                                                          *)
(***************************************************************************)
\* h handled, with success, a rename into a directory that was not indexed
RenamedInto(h) ==
    /\ h.msg.kind = "RenamedLocalFile" /\ h.did = "ok"
    /\ Len(h.msg.after) > 1
    /\ parent_path(h.msg.after) # parent_path(h.msg.path)
    /\ parent_path(h.msg.after) \notin Paths(h.ix)

\* the hub created the parent of h's destination as a new content, inside
\* a directory that was indexed or at the root
FreshParent(h) ==
    /\ \A k \in 1..Len(h.calls) : h.calls[k][1] # "AlreadyExistResponse"
    /\ \/ Len(h.msg.after) = 2
       \/ parent_path(parent_path(h.msg.after)) \in Paths(h.ix)

\* the handler of h created the parent on the hub before it moved the
\* content under the parent's id; ix and ig, the index and the ignore list it
\* left, hold the parent and the content at its new path, and the two
\* entries pushed
Materialized(h, ix, ig) ==
    LET parent == parent_path(h.msg.after)
        content_id == get_content_id_from_path(h.ix, h.msg.path)
    IN  /\ parent \in Paths(ix)
        /\ \E e \in ix : e.path = h.msg.after /\ e.id = content_id
        /\ LET parent_id == get_content_id_from_path(ix, parent)
           IN  /\ parent_id \notin Ids(h.ix)
               /\ \E i, j \in 1..Len(h.calls) :
                      /\ i < j
                      /\ h.calls[i][1] = "create_content" /\ h.calls[i][2] = parent
                      /\ h.calls[j] = <<"move_content", content_id, parent_id>>
               /\ \A j \in 1..Len(h.calls) :
                      h.calls[j][1] = "move_content"
                          => h.calls[j] = <<"move_content", content_id, parent_id>>
               /\ SameBag(Pushed(h, ig),
                          <<ModifiedRemoteFile(content_id), NewRemoteFile(parent_id)>>)

\* C14 as stated: a successful RenamedLocalFile(before, after) whose
\* destination directory is not indexed creates that directory on the hub
\* and indexes it, then moves the content under its id; the index holds the
\* parent and the content at after and the ignore list gained exactly
\* NewRemoteFile(parent_id) and ModifiedRemoteFile(content_id).
C14_ParentMaterializedAsStated ==
    (hist # <<>> /\ RenamedInto(hist[1]))
        => Materialized(hist[1], index, ignore_messages)

\* C14: the same when the hub created the directory as a new content, in a
\* directory that was indexed or at the root.
C14_ParentMaterialized ==
    (hist # <<>> /\ RenamedInto(hist[1]) /\ FreshParent(hist[1]))
        => Materialized(hist[1], index, ignore_messages)

C14_Witness ==
    /\ hist # <<>> /\ RenamedInto(hist[1]) /\ FreshParent(hist[1])
    /\ Materialized(hist[1], index, ignore_messages)
    /\ hist[1].ig # <<>>

\* the index without the revision ids, and where the hub holds each of the
\* first n contents
NoRevision(ix) == {[path |-> e.path, id |-> e.id, mtime |-> e.mtime] : e \in ix}
Placement(h, n) == [i \in 1..n |-> [parent |-> h[i].parent, filename |-> h[i].filename]]

\* the last two messages were RenamedLocalFile(a, b) and RenamedLocalFile(b, a)
\* for an indexed a, and both handlers returned Ok
RenamedBack ==
    /\ Len(hist) >= 2
    /\ hist[2].msg.kind = "RenamedLocalFile"
    /\ hist[2].msg.path # hist[2].msg.after
    /\ hist[1].msg = RenamedLocalFile(hist[2].msg.after, hist[2].msg.path)
    /\ hist[2].msg.path \in Paths(hist[2].ix)
    /\ hist[2].did = "ok" /\ hist[1].did = "ok"

\* the directories of a and of b were indexed, or the root
ParentsWereIndexed ==
    /\ ParentWasIndexed([hist[2] EXCEPT !.msg.path = hist[2].msg.after])
    /\ ParentWasIndexed(hist[2])

Restored ==
    /\ NoRevision(index) = NoRevision(hist[2].ix)
    /\ Placement(hub, Len(hist[2].hub)) = Placement(hist[2].hub, Len(hist[2].hub))

FirstRunDone ==
    /\ synced /\ queue = <<>> /\ hist # <<>> /\ Len(hist) < HistLen
    /\ \A i \in 1..Len(hist) : hist[i].did # "err"

\* C16: when the reconciler runs a second time, after every message of its
\* first run was consumed and with nothing else changed, it sends no message.
C16_SecondRunSilent ==
    FirstRunDone =>
        \A walk \in WalkOrders(disk), rows \in Orders(Paths(index)) :
            sync_from_disk(index, disk, walk) \o sync_from_db(disk, rows) = <<>>

(***************************************************************************)
(* The index and the disk.                                                 *)
(***************************************************************************)
\* every row of ix names an object of disk d, or a path whose removal or
\* rename (its own or a directory's above it) waits in queue q
Covered(ix, d, q) ==
    \A e \in ix :
        \/ OnDisk(d, e.path)
        \/ \E i \in 1..Len(q) :
              \/ q[i] = DeletedLocalFile(e.path)
              \/ q[i].kind = "RenamedLocalFile" /\ IsPrefix(q[i].path, e.path)

\* C17: after every message handled with success, each index entry names an
\* object of the disk or a path whose DeletedLocalFile is in the queue; a
\* rename the watcher has reported and listen has not taken yet is allowed
\* for.
C17_IndexedOnDisk ==
    (hist # <<>> /\ hist[1].did = "ok") => Covered(index, disk, queue)

(***************************************************************************)
(* The recursion of new_remote_file.                                       *)
(***************************************************************************)
\* C18: the handling of NewRemoteFile(id) terminates even when the parent
\* chain of the hub loops among contents that are not indexed: the calls in
\* progress never hold the same content twice.  A content entered a second
\* time finds the hub and the index as the first time, and is entered again
\* without end.
C18_RecursionEnds ==
    \A i, j \in 1..Len(frames) : i # j => frames[i].id # frames[j].id

(***************************************************************************)
(* A local and a remote change of the same content.                        *)
(***************************************************************************)
\* the last two messages were ModifiedLocalFile(rel) and then
\* ModifiedRemoteFile(id), for a row (rel, id) of the index
LocalThenRemote(e) ==
    /\ hist[2].msg = ModifiedLocalFile(e.path) /\ hist[1].msg = ModifiedRemoteFile(e.id)
\* the same in the reverse order
RemoteThenLocal(e) ==
    /\ hist[2].msg = ModifiedRemoteFile(e.id) /\ hist[1].msg = ModifiedLocalFile(e.path)

\* the second message was skipped through an entry that the handler of the
\* first one pushed
SecondSkipped ==
    /\ Dispatched(hist[2])
    /\ hist[1].did = "planned"
    /\ contains(Pushed(hist[2], hist[1].ig), hist[1].msg)

C20_ExitStops ==
    [][/\ Takes(Exit) => ~running' /\ hist'[1].msg = Exit
       /\ (running /\ ~running') => Takes(Exit)
       /\ ~running =>
              /\ ~running' /\ IsPrefix(queue, queue')
              /\ hist' = hist /\ index' = index
              /\ ignore_messages' = ignore_messages]_vars

\* listen returned after it had handled a message, and a message sent
\* after Exit waits in the queue
C20_Witness ==
    /\ ~running /\ queue # <<>>
    /\ Len(hist) >= 2 /\ hist[1].msg = Exit /\ Dispatched(hist[2])

(***************************************************************************)
(* The hub calls of a local rename.                                        *)
(***************************************************************************)
\* the positions of the calls named c among the calls of h
CallsOf(h, c) == {k \in 1..Len(h.calls) : h.calls[k][1] = c}

\* h handled a rename that changes the directory (dir) and the file name
\* (name), or not
RenameKind(h, dir, name) ==
    /\ h.msg.kind = "RenamedLocalFile"
    /\ (parent_path(h.msg.path) # parent_path(h.msg.after)) = dir
    /\ (string_path_file_name(h.msg.path) # string_path_file_name(h.msg.after)) = name

MoveThenRename(h) ==
    /\ CallsOf(h, "move_content") # {}
    /\ CallsOf(h, "update_content_file_name") # {}
    /\ \A i \in CallsOf(h, "move_content"), j \in CallsOf(h, "update_content_file_name") :
           i < j

\* C21: a RenamedLocalFile(before, after) handled with success that changes
\* directory and file name calls the hub move before the hub rename; one
\* that changes the file name alone calls no move and one rename, and the
\* index row of the content then holds after and the revision id of the hub.
C21_MoveBeforeRename ==
    [][(/\ running /\ queue # <<>> /\ queue' = Tail(queue) /\ hist' # hist
        /\ Head(queue).kind = "RenamedLocalFile"
        /\ hist'[1].did = "ok")
       => LET h == hist'[1]
              content_id == get_content_id_from_path(index, h.msg.path)
          IN  /\ RenameKind(h, TRUE, TRUE) => MoveThenRename(h)
              /\ RenameKind(h, FALSE, TRUE) =>
                     /\ CallsOf(h, "move_content") = {}
                     /\ Cardinality(CallsOf(h, "update_content_file_name")) = 1
                     /\ \E e \in index' :
                            /\ e.path = h.msg.after /\ e.id = content_id
                            /\ e.rev = hub'[content_id].rev]_vars

\* a rename that changed directory and file name was handled with success
C21_Witness ==
    /\ hist # <<>> /\ hist[1].did = "ok"
    /\ RenameKind(hist[1], TRUE, TRUE) /\ MoveThenRename(hist[1])
    /\ hist[1].msg.after \in Paths(index)

(***************************************************************************)
(* What one run of the reconciler sends.                                   *)
(***************************************************************************)
\* no component of p starts with '.', '~' or '#'
Visible(p) == \A k \in 1..Len(p) : p[k][1] \notin {".", "~", "#"}

\* the messages one run owes for disk d and index ix
Owed(d, ix) ==
    {NewLocalFile(p) : p \in {q \in DOMAIN d : Visible(q) /\ q \notin Paths(ix)}}
    \cup {ModifiedLocalFile(e.path) :
              e \in {r \in ix : /\ r.path \in DOMAIN d /\ Visible(r.path)
                                /\ d[r.path].mtime # r.mtime}}
    \cup {DeletedLocalFile(p) : p \in {q \in Paths(ix) : q \notin DOMAIN d}}

Digested == inotify # <<>> /\ inotify' = Tail(inotify)

PathsOf(event) == IF event.kind = "Rename" THEN {event.path, event.dest} ELSE {event.path}
InWorkspace(event) == \A p \in PathsOf(event) : IsPrefix(Workspace, p)
IsText(event) ==
    \A p \in PathsOf(event) : \A k \in 1..Len(p) : \A i \in 1..Len(p[k]) :
        p[k][i] # InvalidByte
Relative(p) == SubSeq(p, Len(Workspace) + 1, Len(p))

\* the one message owed for an event of PathKinds
Translation(event) ==
    CASE event.kind = "Create" -> NewLocalFile(Relative(event.path))
      [] event.kind = "Write" -> ModifiedLocalFile(Relative(event.path))
      [] event.kind = "Remove" -> DeletedLocalFile(Relative(event.path))
      [] event.kind = "Rename" ->
             RenamedLocalFile(Relative(event.path), Relative(event.dest))

\* C23 as the specification states it: digest_event sends exactly one
\* message, with workspace-relative paths, for every create, write, remove
\* and rename event in the workspace, none for chmod, notice-write,
\* notice-remove, rescan and error events, and for a path outside the
\* workspace none, returning an error.
C23_DigestAsStated ==
    [][Digested =>
          LET event == Head(inotify)
              sent == SubSeq(queue', Len(queue) + 1, Len(queue'))
          IN  /\ IsPrefix(queue, queue')
              /\ (event.kind \in PathKinds /\ InWorkspace(event))
                     => sent = <<Translation(event)>>
              /\ event.kind \in IgnoredKinds => sent = <<>>
              /\ (event.kind \in PathKinds /\ ~InWorkspace(event))
                     => sent = <<>> /\ ~digest_event_result(event).ok]_vars

\* C23, amended: digest_event sends exactly one message, with
\* workspace-relative paths, for a create, write, remove or rename event
\* whose paths are in the workspace and are UTF-8 text; it sends none for
\* chmod, notice-write, notice-remove, rescan and error events; for a
\* create, write, remove or rename event with a path outside the workspace
\* or a path that is not UTF-8 text it sends none and returns an error.
C23_Digest ==
    [][Digested =>
          LET event == Head(inotify)
              sent == SubSeq(queue', Len(queue) + 1, Len(queue'))
          IN  /\ IsPrefix(queue, queue')
              /\ (event.kind \in PathKinds /\ InWorkspace(event) /\ IsText(event))
                     => sent = <<Translation(event)>> /\ digest_event_result(event).ok
              /\ event.kind \in IgnoredKinds
                     => sent = <<>> /\ digest_event_result(event).ok
              /\ (event.kind \in PathKinds /\ ~(InWorkspace(event) /\ IsText(event)))
                     => sent = <<>> /\ ~digest_event_result(event).ok]_vars

\* two events were digested: a rename in the workspace gave one message,
\* the other event gave none
C23_Witness ==
    /\ events = MaxWatchEvents /\ inotify = <<>> /\ connected = TRUE
    /\ Len(queue) = 1 /\ queue[1].kind = "RenamedLocalFile"
    /\ queue[1].path = <<NameA>> /\ queue[1].after = <<NameA, NameB>>

(***************************************************************************)
(* C24.  NewLocalFile for a path that is indexed already.                  *)
(***************************************************************************)
\* listen dispatches NewLocalFile(rel) while rel is in the index
NewOnIndexed ==
    /\ running /\ queue # <<>> /\ queue' = Tail(queue) /\ hist' # hist
    /\ Head(queue).kind = "NewLocalFile"
    /\ Head(queue).path \in Paths(index)
    /\ hist'[1].did \in {"ok", "err"}

\* C24: NewLocalFile(rel) for a rel that is indexed already makes no hub
\* create call and adds no index entry; it has exactly the effect of
\* ModifiedLocalFile(rel): ModifiedRemoteFile(content_id) is pushed, the
\* content is uploaded, and on success the entry's modification time and
\* revision id are updated.
C24_NewIsModified ==
    [][NewOnIndexed =>
          LET h == hist'[1]
              rel == h.msg.path
              entry == CHOOSE e \in index : e.path = rel
          IN  /\ CallsOf(h, "create_content") = {}
              /\ Paths(index') = Paths(index) /\ Ids(index') = Ids(index)
              /\ \E failAt \in 0..MaxCalls :
                     LET st == modified_local_file(HandlerState(ignore_messages, failAt),
                                                   rel)
                     IN  /\ index' = st.ix /\ ignore_messages' = st.ig
                         /\ hub' = st.hub /\ disk' = st.disk
                         /\ h.calls = st.calls /\ h.err = st.err
              /\ h.did = "ok" =>
                     /\ ignore_messages'
                            = Append(ignore_messages, ModifiedRemoteFile(entry.id))
                     /\ Cardinality(CallsOf(h, "update_content")) = 1
                     /\ \A k \in CallsOf(h, "update_content") : h.calls[k][4] = entry.id
                     /\ hub'[entry.id].rev = hub[entry.id].rev + 1
                     /\ index' = (index \ {entry})
                                    \cup {[entry EXCEPT !.mtime = disk[rel].mtime,
                                                        !.rev = hub'[entry.id].rev]}]_vars

\* NewLocalFile(rel) was handled with success for a rel that was indexed:
\* the content was uploaded and nothing was created
C24_Witness ==
    /\ hist # <<>> /\ hist[1].did = "ok"
    /\ hist[1].msg.kind = "NewLocalFile"
    /\ hist[1].msg.path \in Paths(hist[1].ix)
    /\ CallsOf(hist[1], "update_content") # {}
    /\ CallsOf(hist[1], "create_content") = {}

(***************************************************************************)
(* C25.  What the ignore list makes listen skip.                           *)
(***************************************************************************)
\* C25: a message is skipped through the ignore list only as the echo of a
\* mutation that a handler completed with success; here, for a prediction
\* that was pushed while the message before was handled: when listen skips
\* a message through it, the handler that pushed it returned Ok, so that a
\* prediction left by a handler that failed never hides a change.
C25_SkippedAreEchoes ==
    \A i \in 1..(Len(hist) - 1) :
        (/\ hist[i].did = "planned"
         /\ Count(hist[i + 1].ig, hist[i].msg) = 0)
            => hist[i + 1].did = "ok"

(***************************************************************************)
(* C26.  How listen ends.                                                  *)
(***************************************************************************)
\* C26: listen returns only in the step that consumes Exit; once every
\* sender has been dropped and the queue is empty with listen still running,
\* listen never returns and handles no further message: the queue, the
\* index, the ignore list, the disk and the hub stay as they are, and the
\* only iterations of listen are failed receives.
C26_ListenEnds ==
    [][/\ (running /\ ~running') => Takes(Exit)
       /\ (~connected /\ queue = <<>> /\ running) =>
              /\ running' /\ ~connected' /\ queue' = <<>>
              /\ UNCHANGED <<index, ignore_messages, disk, hub>>
              /\ hist' # hist => hist'[1].did = "closed"]_vars

\* a message was handled, the senders were dropped, and listen went through
\* a failed receive and is still running
C26_Witness ==
    /\ ~connected /\ queue = <<>> /\ running
    /\ Len(hist) >= 2
    /\ hist[1].did = "closed" /\ hist[2].did = "ok"

(***************************************************************************)
(* C27.  The order of the messages of one run of the reconciler.           *)
(***************************************************************************)
WalkKinds == {"NewLocalFile", "ModifiedLocalFile"}

\* C27 as the specification implies it: in one run of the reconciler every
\* NewLocalFile and ModifiedLocalFile message is sent before any
\* DeletedLocalFile message, and the message of a directory is sent before
\* the messages of the entries it contains.
C27_RunOrderAsStated ==
    [][(~synced /\ synced') =>
          LET sent == SubSeq(queue', Len(queue) + 1, Len(queue'))
          IN  /\ \A i, j \in 1..Len(sent) :
                     (sent[i].kind \in WalkKinds /\ sent[j].kind = "DeletedLocalFile")
                         => i < j
              /\ \A i, j \in 1..Len(sent) :
                     (i # j /\ IsPrefix(sent[i].path, sent[j].path)) => i < j]_vars

\* C27, amended: in one run of the reconciler every NewLocalFile and
\* ModifiedLocalFile message is sent before any DeletedLocalFile message,
\* and among the NewLocalFile and ModifiedLocalFile messages that of a
\* directory is sent before those of the entries it contains.
C27_RunOrder ==
    [][(~synced /\ synced') =>
          LET sent == SubSeq(queue', Len(queue) + 1, Len(queue'))
          IN  /\ \A i, j \in 1..Len(sent) :
                     (sent[i].kind \in WalkKinds /\ sent[j].kind = "DeletedLocalFile")
                         => i < j
              /\ \A i, j \in 1..Len(sent) :
                     (/\ i # j /\ IsPrefix(sent[i].path, sent[j].path)
                      /\ sent[i].kind \in WalkKinds /\ sent[j].kind \in WalkKinds)
                         => i < j]_vars

\* the reconciler has sent the messages of directory a and of a/b, in this
\* order, and then DeletedLocalFile(b)
C27_Witness ==
    /\ synced /\ Len(queue) = 3
    /\ queue[1].kind \in WalkKinds /\ queue[1].path = <<NameA>>
    /\ queue[2].kind \in WalkKinds /\ queue[2].path = <<NameA, NameB>>
    /\ queue[3] = DeletedLocalFile(<<NameB>>)

==============================================================================
